---- MODULE Spec2Model ----
(***************************************************************************)
(* Model of the image-analysis core of the skin-lesion triage application: *)
(* client/src/utils/modelLoader.js (class ModelLoader).                    *)
(*                                                                         *)
(* Numbers.  JavaScript numbers are modelled by integers:                  *)
(*   - a probability is an integer number of thousandths (permille);       *)
(*   - a value the code rounds to two decimals is an integer number of     *)
(*     hundredths;                                                         *)
(*   - Math.round is round-half-up on the exact rational value;            *)
(*   - Math.sqrt is a floor square root on a value scaled by 10^6, i.e.    *)
(*     a length in thousandths of a pixel;                                 *)
(*   - Math.PI is the rational PiNum / PiDen.                              *)
(***************************************************************************)
EXTENDS Integers, Sequences, FiniteSets, TLC

VARIABLES
    img,          \* the decoded image handed to analyzeLesionDetails
    lesion,       \* the record analyzeLesionDetails returned, or None
    modelKind,    \* "MobileNet" | "Custom": which cancer prediction path runs
    predictions,  \* the result of model.classify(img): <<[className, probability]>>
    customOut,    \* the output tensor of a custom model: [shape, data]
    risk,         \* the risk assessment returned, or None
    cond,         \* the condition assessment returned, or None
    models,       \* this.models: per slot, 0 (null) or the number of the load that made it
    loading,      \* this.loading: per slot, the "load in progress" flag
    loads,        \* per slot, how many times mobilenet.load() has been called for it
    classifies,   \* per caller, how many times model.classify() has been called for it
    call,         \* per caller, the ModelLoader method it called, or NoCall
    th,           \* per caller and slot, the async function working on that slot
    disposal,     \* what dispose() has done: the models it disposed, the calls made by then
    now,          \* the clock new Date() reads, in milliseconds since the start
    results,      \* the records analyzeImage has returned so far, in order
    component,    \* CameraCapture's React state: capturedImage, analysis, loading
    handler,      \* the run of CameraCapture's analyzeImage handler, if any
    variant,      \* which CameraCapture source file the component is built from
    server        \* the run of the server's analyzeImage: the methods tried, the answer

scorerVars == <<img, lesion, modelKind, predictions, customOut, risk, cond>>

loaderVars == <<models, loading, loads, classifies, call, th, disposal>>

clockVars == <<now, results>>

captureVars == <<component, handler, variant>>

serverVars == <<server>>

appVars == <<now, results, component, handler, variant, server>>

vars == <<img, lesion, modelKind, predictions, customOut, risk, cond,
          models, loading, loads, classifies, call, th, disposal,
          now, results, component, handler, variant, server>>

None == [none |-> TRUE]

----------------------------------------------------------------------------
(* Arithmetic helpers                                                      *)

\* Math.round(num / den) for den > 0: floor(x + 1/2)
RoundDiv(num, den) == (2 * num + den) \div (2 * den)

Abs(n) == IF n < 0 THEN -n ELSE n

MinOf(a, b) == IF a < b THEN a ELSE b

MaxOf(a, b) == IF a > b THEN a ELSE b

SetMin(S) == CHOOSE m \in S : \A n \in S : m <= n

SetMax(S) == CHOOSE m \in S : \A n \in S : m >= n

RECURSIVE SetSum(_, _)
\* sum of f[e] over the elements e of S
SetSum(f, S) ==
    IF S = {} THEN 0
    ELSE LET e == CHOOSE e \in S : TRUE IN f[e] + SetSum(f, S \ {e})

RECURSIVE RangeSum(_, _, _, _)
\* sum of f[e] over the elements e of S in lo .. hi, by halving the range
RangeSum(f, S, lo, hi) ==
    IF lo > hi THEN 0
    ELSE IF lo = hi THEN (IF lo \in S THEN f[lo] ELSE 0)
    ELSE LET mid == (lo + hi) \div 2
         IN  RangeSum(f, S, lo, mid) + RangeSum(f, S, mid + 1, hi)

\* sum of f[idx] over the pixel indices idx of S, a subset of the pixels of im
PixelSum(f, S, im) == RangeSum(f, S, 0, im.w * im.h - 1)

RECURSIVE SeqSum(_)
SeqSum(s) == IF s = <<>> THEN 0 ELSE Head(s) + SeqSum(Tail(s))

RECURSIVE SeqMax(_)
\* Math.max(...s) for a non-empty s
SeqMax(s) == IF Len(s) = 1 THEN s[1] ELSE MaxOf(Head(s), SeqMax(Tail(s)))

RECURSIVE ISqrtBetween(_, _, _)
ISqrtBetween(n, lo, hi) ==
    IF lo >= hi THEN lo
    ELSE LET mid == (lo + hi + 1) \div 2 IN
         IF mid * mid <= n THEN ISqrtBetween(n, mid, hi)
         ELSE ISqrtBetween(n, lo, mid - 1)

\* floor(sqrt(n)) for 0 <= n < 2^31
ISqrt(n) == ISqrtBetween(n, 0, MinOf(n, 46340))

PiNum == 355
PiDen == 113

----------------------------------------------------------------------------
(* Images                                                                  *)

MaxPixels == 12  \* an image of the lesion specification has w * h <= MaxPixels

White   == <<255, 255, 255>>
Black   == <<0, 0, 0>>
Magenta == <<255, 0, 255>>

\* all images of exactly w x h pixels painted from a palette; a pixel (x, y)
\* is px[y * w + x], as in the ImageData the code reads
ImagesOfSize(w, h, palette) ==
    { [w |-> w, h |-> h, px |-> p] : p \in [0 .. (w * h - 1) -> palette] }

\* all images of at most n pixels, of every width and height
ImagesUpTo(n, palette) ==
    UNION { ImagesOfSize(d[1], d[2], palette) :
              d \in { e \in (1 .. n) \X (1 .. n) : e[1] * e[2] <= n } }

NoImage == [w |-> 0, h |-> 0, px |-> <<>>]

----------------------------------------------------------------------------
(* analyzeLesionDetails                                                    *)

threshold == 128
pixelsPerMM == 10

\* Math.round(0.299 r + 0.587 g + 0.114 b), stored in a Uint8Array
Gray(c) == RoundDiv(299 * c[1] + 587 * c[2] + 114 * c[3], 1000)

\* lesionMask as the set of indices idx = y * w + x whose gray is below threshold
LesionMask(im) == { idx \in 0 .. (im.w * im.h - 1) : Gray(im.px[idx]) < threshold }

\* minX, maxX, minY, maxY after the scan: they start at w, 0, h, 0
BBox(im, mask) ==
    [ minX |-> SetMin({im.w} \cup { idx % im.w : idx \in mask }),
      maxX |-> SetMax({0}    \cup { idx % im.w : idx \in mask }),
      minY |-> SetMin({im.h} \cup { idx \div im.w : idx \in mask }),
      maxY |-> SetMax({0}    \cup { idx \div im.w : idx \in mask }) ]

\* the pixels the loops "for y = minY..maxY, for x = minX..maxX" visit and find set
Scanned(im, mask, bb) ==
    { idx \in mask : /\ idx % im.w \in bb.minX .. bb.maxX
                     /\ idx \div im.w \in bb.minY .. bb.maxY }

\* neighbors.some(n => n): a 4-neighbour inside the canvas that is not a lesion pixel
IsBorderPixel(im, mask, idx) ==
    LET x == idx % im.w
        y == idx \div im.w
    IN  \/ y > 0 /\ (y - 1) * im.w + x \notin mask
        \/ y < im.h - 1 /\ (y + 1) * im.w + x \notin mask
        \/ x > 0 /\ y * im.w + (x - 1) \notin mask
        \/ x < im.w - 1 /\ y * im.w + (x + 1) \notin mask

BorderPixels(im, mask, bb) ==
    { idx \in Scanned(im, mask, bb) : IsBorderPixel(im, mask, idx) }

\* circularity = perimeter > 0 ? 4 PI area / perimeter^2 : 0, as the fraction num/den
CircularityFrac(area, perimeter) ==
    IF perimeter > 0
    THEN [num |-> 4 * PiNum * area, den |-> PiDen * perimeter * perimeter]
    ELSE [num |-> 0, den |-> 1]

\* avgRadius = diameter / 2 = sqrt(area / PI), in thousandths of a pixel
AvgRadius(area) == ISqrt(((area * PiDen * 10000) \div PiNum) * 100)

\* dist = sqrt((x - centerX)^2 + (y - centerY)^2), in thousandths of a pixel;
\* centerX = (minX + maxX) / 2, centerY = (minY + maxY) / 2
Dist(im, bb, idx) ==
    LET dx2 == 2 * (idx % im.w) - (bb.minX + bb.maxX)
        dy2 == 2 * (idx \div im.w) - (bb.minY + bb.maxY)
    IN  ISqrt((dx2 * dx2 + dy2 * dy2) * 250000)

\* borderDeviation / (borderPoints * avgRadius) as a fraction, before Math.min(1, .)
BorderRatio(im, bb, border, avgRadius) ==
    [ num |-> PixelSum([idx \in border |-> Abs(Dist(im, bb, idx) - avgRadius)], border, im),
      den |-> Cardinality(border) * avgRadius ]

\* Math.min(1, f) of a fraction f
ClampOne(f) == IF f.num > f.den THEN [num |-> 1, den |-> 1] ELSE f

BorderIrregularityUnclamped(im, bb, border, avgRadius) ==
    IF Cardinality(border) > 0
    THEN BorderRatio(im, bb, border, avgRadius)
    ELSE [num |-> 0, den |-> 1]

\* borderPoints > 0 ? Math.min(1, borderDeviation / (borderPoints * avgRadius)) : 0
BorderIrregularity(im, bb, border, avgRadius) ==
    IF Cardinality(border) > 0
    THEN ClampOne(BorderRatio(im, bb, border, avgRadius))
    ELSE [num |-> 0, den |-> 1]

\* |left - right| / total; x < centerLineX counts left, the rest right
AsymmetryFrac(im, bb, scanned) ==
    LET left  == Cardinality({ idx \in scanned : 2 * (idx % im.w) < bb.minX + bb.maxX })
        right == Cardinality(scanned) - left
    IN  IF left + right > 0
        THEN [num |-> Abs(left - right), den |-> left + right]
        ELSE [num |-> 0, den |-> 1]

\* Math.min(1, Math.sqrt(variance) / 255) in thousandths; variance is the mean
\* over the lesion pixels of dr^2 + dg^2 + db^2 about the channel means
ColorVariation(im, mask) ==
    LET n == Cardinality(mask)
        ChV(k) == n * PixelSum([idx \in mask |-> im.px[idx][k] * im.px[idx][k]], mask, im)
                  - PixelSum([idx \in mask |-> im.px[idx][k]], mask, im)
                    * PixelSum([idx \in mask |-> im.px[idx][k]], mask, im)
    IN  IF n > 0
        THEN MinOf(1000, (1000 * ISqrt(ChV(1) + ChV(2) + ChV(3))) \div (255 * n))
        ELSE 0

\* a shape label that calls every near-square bounding box round, whatever the
\* circularity
ShapeLabelByAspectRatio(ar, circ) ==
    IF ar.num * 10 > 8 * ar.den /\ ar.num * 10 < 12 * ar.den
    THEN "Round"
    ELSE IF ar.num * 10 > 15 * ar.den \/ ar.num * 100 < 67 * ar.den
         THEN "Irregular"
         ELSE "Oval"

\* the shape label, from the unrounded aspectRatio (ar) and circularity (circ)
ShapeLabel(ar, circ) ==
    IF /\ ar.num * 10 > 8 * ar.den /\ ar.num * 10 < 12 * ar.den
       /\ circ.num * 10 > 7 * circ.den
    THEN "Round"
    ELSE IF ar.num * 10 > 15 * ar.den \/ ar.num * 100 < 67 * ar.den
         THEN "Irregular"
         ELSE "Oval"

\* Math.round(f * 100) / 100 as a number of hundredths
Round2(f) == RoundDiv(100 * f.num, f.den)

----------------------------------------------------------------------------
(* extractDominantColors                                                   *)

groupSize == 32

HexDigits == "0123456789abcdef"

\* n.toString(16).padStart(2, '0') for n in 0 .. 255
Hex2(n) ==
    SubSeq(HexDigits, (n \div 16) + 1, (n \div 16) + 1)
        \o SubSeq(HexDigits, (n % 16) + 1, (n % 16) + 1)

\* Math.floor(c / groupSize) * groupSize on each channel
Quantize(c) ==
    << (c[1] \div groupSize) * groupSize,
       (c[2] \div groupSize) * groupSize,
       (c[3] \div groupSize) * groupSize >>

\* the same groups in the same order without slice(0, 3): every group is listed
ExtractAllColors(im, mask) ==
    LET keys    == { Quantize(im.px[idx]) : idx \in mask }
        members == [ k \in keys |-> { idx \in mask : Quantize(im.px[idx]) = k } ]
        count   == [ k \in keys |-> Cardinality(members[k]) ]
        first   == [ k \in keys |-> SetMin(members[k]) ]
        before  == [ k \in keys |->
                       Cardinality({ j \in keys :
                           \/ count[j] > count[k]
                           \/ count[j] = count[k] /\ first[j] < first[k] }) ]
    IN  [ i \in 1 .. Cardinality(keys) |->
            LET at == CHOOSE k \in keys : before[k] = i - 1
            IN  [ rgb        |-> at,
                  hex        |-> "#" \o Hex2(at[1]) \o Hex2(at[2]) \o Hex2(at[3]),
                  percentage |-> RoundDiv(count[at] * 100, Cardinality(mask)) ] ]

\* The colors array lists the lesion pixels by increasing index, so a group is
\* created at the smallest index that holds its colour.  The sort by count is
\* stable: groups of equal count stay in order of creation.
ExtractDominantColors(im, mask) ==
    LET keys    == { Quantize(im.px[idx]) : idx \in mask }
        members == [ k \in keys |-> { idx \in mask : Quantize(im.px[idx]) = k } ]
        count   == [ k \in keys |-> Cardinality(members[k]) ]
        first   == [ k \in keys |-> SetMin(members[k]) ]
        before  == [ k \in keys |->
                       Cardinality({ j \in keys :
                           \/ count[j] > count[k]
                           \/ count[j] = count[k] /\ first[j] < first[k] }) ]
        top     == { k \in keys : before[k] < 3 }
    IN  [ i \in 1 .. Cardinality(top) |->
            LET at == CHOOSE k \in top : before[k] = i - 1
            IN  [ rgb        |-> at,
                  hex        |-> "#" \o Hex2(at[1]) \o Hex2(at[2]) \o Hex2(at[3]),
                  percentage |-> RoundDiv(count[at] * 100, Cardinality(mask)) ] ]

\* The record analyzeLesionDetails returns.  Fields rounded to two decimals are
\* hundredths; widthMM, heightMM, diameterMM are tenths of a millimetre; the raw
\* scores asymmetry, border and diameter are fractions, color is thousandths.
\* The object literal names "diameter" twice: the later value,
\* Math.min(1, diameterMM / 6), is the one the record holds.
AnalyzeLesionDetails(im) ==
    LET mask      == LesionMask(im)
        bb        == BBox(im, mask)
        width     == bb.maxX - bb.minX
        height    == bb.maxY - bb.minY
        area      == Cardinality(mask)
        avgRadius == AvgRadius(area)
        ar        == IF width > 0 THEN [num |-> height, den |-> width]
                                  ELSE [num |-> 1, den |-> 1]
        scanned   == Scanned(im, mask, bb)
        border    == BorderPixels(im, mask, bb)
        circ      == CircularityFrac(area, Cardinality(border))
        colorVar  == ColorVariation(im, mask)
        irr       == BorderIrregularity(im, bb, border, avgRadius)
        asym      == AsymmetryFrac(im, bb, scanned)
    IN  [ width              |-> width,
          height             |-> height,
          area               |-> area,
          widthMM            |-> RoundDiv(width * 10, pixelsPerMM),
          heightMM           |-> RoundDiv(height * 10, pixelsPerMM),
          diameterMM         |-> RoundDiv(2 * avgRadius * 10, 1000 * pixelsPerMM),
          aspectRatio        |-> Round2(ar),
          circularity        |-> Round2(circ),
          shape              |-> ShapeLabel(ar, circ),
          colorVariation     |-> RoundDiv(colorVar, 10),
          dominantColors     |-> ExtractDominantColors(im, mask),
          borderIrregularity |-> Round2(irr),
          borderSmoothness   |-> RoundDiv(100 * (irr.den - irr.num), irr.den),
          asymmetryScore     |-> Round2(asym),
          asymmetry          |-> asym,
          border             |-> irr,
          color              |-> colorVar,
          diameter           |-> ClampOne([num |-> 2 * avgRadius,
                                           den |-> 1000 * pixelsPerMM * 6]),
          evolving           |-> 0 ]

\* the defaults the catch block returns when the canvas calls throw
LesionDefaults ==
    [ width |-> 0, height |-> 0, area |-> 0, widthMM |-> 0, heightMM |-> 0,
      diameterMM |-> 0, aspectRatio |-> 100, circularity |-> 100,
      shape |-> "Unknown", colorVariation |-> 0, dominantColors |-> <<>>,
      borderIrregularity |-> 0,
      borderSmoothness |-> 100, asymmetryScore |-> 0,
      asymmetry |-> [num |-> 0, den |-> 1], border |-> [num |-> 0, den |-> 1],
      color |-> 0, diameter |-> [num |-> 0, den |-> 1], evolving |-> 0 ]

----------------------------------------------------------------------------
(* Strings: String.prototype.toLowerCase and String.prototype.includes     *)

UpperAlpha == "ABCDEFGHIJKLMNOPQRSTUVWXYZ"
LowerAlpha == "abcdefghijklmnopqrstuvwxyz"

LowerChar(c) ==
    IF \E i \in 1 .. 26 : SubSeq(UpperAlpha, i, i) = c
    THEN LET i == CHOOSE i \in 1 .. 26 : SubSeq(UpperAlpha, i, i) = c
         IN  SubSeq(LowerAlpha, i, i)
    ELSE c

RECURSIVE ToLowerCase(_)
ToLowerCase(s) ==
    IF Len(s) = 0 THEN ""
    ELSE LowerChar(SubSeq(s, 1, 1)) \o ToLowerCase(SubSeq(s, 2, Len(s)))

\* s.includes(k)
Includes(s, k) ==
    \E i \in 1 .. (Len(s) - Len(k) + 1) : SubSeq(s, i, i + Len(k) - 1) = k

\* keywords.some(keyword => className.includes(keyword))
SomeKeyword(className, keywords) ==
    \E i \in 1 .. Len(keywords) : Includes(className, keywords[i])

\* keywords.filter(keyword => className.includes(keyword)).length
MatchCount(className, keywords) ==
    Cardinality({ i \in 1 .. Len(keywords) : Includes(className, keywords[i]) })

----------------------------------------------------------------------------
(* Classifier results                                                      *)

TopK == 3   \* model.classify(img) answers with the top 3 predictions

\* class names the classifier may answer with
Labels ==
    { "melanoma", "Skin Cancer", "rash", "mole", "scaly dry skin",
      "ringworm", "viral rash", "tabby cat", "Healthy Clear Skin" }

\* probabilities in thousandths: 0, 1/4, 1/2 and 1 are exact in binary floating
\* point, 0.8 and 0.9 are the values of the documented scenarios, 0.2 is what
\* 0.8 leaves to the other classes
Confs == { 0, 200, 250, 500, 800, 900, 1000 }

Prediction == [className : Labels, probability : Confs]

\* 1 .. k predictions in non-increasing order of probability
ClassifierResultsUpTo(k) ==
    { r \in UNION { [1 .. n -> Prediction] : n \in 1 .. k } :
        \A i \in 1 .. (Len(r) - 1) : r[i].probability >= r[i + 1].probability }

ClassifierResults == ClassifierResultsUpTo(TopK)

----------------------------------------------------------------------------
(* predictCancerWithMobileNet                                              *)

skinKeywords == << "skin", "lesion", "mole", "spot", "rash", "dermatitis", "eczema" >>
cancerKeywords == << "cancer", "tumor", "malignant", "melanoma", "carcinoma" >>

\* hasCancerKeyword and hasSkinKeyword of every class name, lower-cased first
hasCancerKeyword == [ l \in Labels |-> SomeKeyword(ToLowerCase(l), cancerKeywords) ]

hasSkinKeyword == [ l \in Labels |-> SomeKeyword(ToLowerCase(l), skinKeywords) ]

\* the same with the skin keywords tested before the cancer keywords
CancerPercentageSkinFirst(topPrediction) ==
    LET p == topPrediction.probability
    IN  IF hasSkinKeyword[topPrediction.className]
        THEN RoundDiv(p * 30 + 10 * 1000, 1000)
        ELSE IF hasCancerKeyword[topPrediction.className]
             THEN RoundDiv(p * 100, 1000)
             ELSE RoundDiv(p * 15 + 5 * 1000, 1000)

\* the local cancerPercentage before the clamp, from the top prediction
CancerPercentageOf(topPrediction) ==
    LET p == topPrediction.probability
    IN  IF hasCancerKeyword[topPrediction.className] THEN RoundDiv(p * 100, 1000)
        ELSE IF hasSkinKeyword[topPrediction.className]
             THEN RoundDiv(p * 30 + 10 * 1000, 1000)
             ELSE RoundDiv(p * 15 + 5 * 1000, 1000)

\* the percentage returned as computed, without the clamp
UnclampedPercentage(pct) == pct

\* Math.max(5, Math.min(95, cancerPercentage))
ClampPercentage(pct) == MaxOf(5, MinOf(95, pct))

\* f > t / 100 for a fraction f
FracAbove(f, t) == f.num * 100 > t * f.den

\* the ABCDE patterns read off the lesion analysis
PatternsOf(lesionAnalysis) ==
    [ asymmetry |-> lesionAnalysis.asymmetryScore > 60,
      border    |-> lesionAnalysis.borderIrregularity > 55,
      color     |-> lesionAnalysis.colorVariation > 65,
      diameter  |-> FracAbove(lesionAnalysis.diameter, 50),
      evolving  |-> FALSE ]

PredictCancerWithMobileNet(preds, lesionAnalysis) ==
    [ cancerPercentage |-> ClampPercentage(CancerPercentageOf(preds[1])),
      confidence       |-> preds[1].probability,
      patterns         |-> PatternsOf(lesionAnalysis),
      lesionDetails    |-> lesionAnalysis,
      modelUsed        |-> TRUE,
      modelType        |-> "MobileNet",
      topPredictions   |-> preds ]

----------------------------------------------------------------------------
(* predictCancerWithCustomModel                                            *)

\* modelConfig.cancer.outputFormat: set in the constructor, never assigned again,
\* so the softmax branch for 'logits' is never taken
outputFormat == "probabilities"

\* output tensors: a shape and its flattened data, one probability per entry
CustomShapes == { <<1>>, <<2>>, <<3>>, <<1, 2>> }

ShapeSize(sh) == IF Len(sh) = 1 THEN sh[1] ELSE sh[1] * sh[2]

CustomOutputs ==
    UNION { { [shape |-> sh, data |-> d] : d \in [1 .. ShapeSize(sh) -> Confs] } :
              sh \in CustomShapes }

\* malignantProb, from predictionShape and predictionData
MalignantProb(out) ==
    IF Len(out.shape) = 1
    THEN IF out.shape[1] = 1 THEN out.data[1]
         ELSE IF out.shape[1] = 2 THEN out.data[2]
         ELSE SeqMax(out.data)
    ELSE SeqMax(out.data)

BenignProb(out) ==
    IF Len(out.shape) = 1 /\ out.shape[1] = 2 THEN out.data[1]
    ELSE 1000 - MalignantProb(out)

CustomPatternsOf(malignantProb) ==
    [ asymmetry |-> malignantProb > 600,
      border    |-> malignantProb > 550,
      color     |-> malignantProb > 650,
      diameter  |-> malignantProb > 500,
      evolving  |-> malignantProb > 700 ]

PredictCancerWithCustomModel(out) ==
    [ cancerPercentage |-> ClampPercentage(RoundDiv(MalignantProb(out) * 100, 1000)),
      confidence       |-> MaxOf(BenignProb(out), MalignantProb(out)),
      patterns         |-> CustomPatternsOf(MalignantProb(out)),
      modelUsed        |-> TRUE,
      modelType        |-> "Custom",
      rawPrediction    |-> out.data ]

----------------------------------------------------------------------------
(* predictInfectionWithMobileNet                                           *)

conditions ==
    << "Bacterial Infection", "Fungal Infection", "Viral Infection",
       "Eczema", "Psoriasis", "Normal Skin" >>

ConditionSet == { conditions[i] : i \in 1 .. Len(conditions) }

conditionKeywords ==
    [ c \in ConditionSet |->
        CASE c = "Bacterial Infection" ->
               << "bacteria", "infection", "abscess", "boil", "cellulitis",
                  "pustule", "pimple" >>
          [] c = "Fungal Infection" ->
               << "fungus", "fungal", "ringworm", "candidiasis", "athlete",
                  "yeast", "mold" >>
          [] c = "Viral Infection" ->
               << "virus", "viral", "herpes", "shingles", "wart", "molluscum" >>
          [] c = "Eczema" ->
               << "eczema", "dermatitis", "atopic", "rash", "itchy", "dry", "scaly" >>
          [] c = "Psoriasis" ->
               << "psoriasis", "scaly", "plaque", "silver", "flaky" >>
          [] c = "Normal Skin" ->
               << "skin", "normal", "healthy", "clear" >> ]

\* Scores are kept exactly, as integers in units of 1 / ScoreUnit:
\* weight = probability * (3 - index) / 3 has denominator 1000 * 3, the match
\* fraction matchCount / keywords.length has a denominator dividing 420, and
\* every contribution is a multiple of 10.
KeywordLcm == 7 * 6 * 5 * 2   \* keyword lists have 7, 7, 6, 7, 5 and 4 entries
ScoreUnit == (1000 * 3 * KeywordLcm) \div 10

\* matchCount of every class name, lower-cased first, against every condition
matchCounts ==
    [ l \in Labels |->
        [ c \in ConditionSet |-> MatchCount(ToLowerCase(l), conditionKeywords[c]) ] ]

\* what prediction number i (from 1) adds to conditionScores[condition]
Contribution(pred, i, condition) ==
    LET keywords   == conditionKeywords[condition]
        matchCount == matchCounts[pred.className][condition]
        weight3000 == pred.probability * (3 - (i - 1))
    IN  IF matchCount > 0
        THEN weight3000 * matchCount * (KeywordLcm \div Len(keywords)) * 10
        ELSE IF condition = "Normal Skin"
             THEN weight3000 * KeywordLcm
             ELSE 0

ConditionScores(preds) ==
    [ c \in ConditionSet |->
        SeqSum([ i \in 1 .. Len(preds) |-> Contribution(preds[i], i, c) ]) ]

\* Math.round(score / totalScore * 100) for 0 <= score <= totalScore, totalScore > 0,
\* by long division so that no product leaves 32 bits
Percent(score, totalScore) ==
    LET q1 == (10 * score) \div totalScore
        r1 == (10 * score) % totalScore
        q2 == (10 * r1) \div totalScore
        r2 == (10 * r1) % totalScore
    IN  10 * q1 + q2 + (IF 2 * r2 >= totalScore THEN 1 ELSE 0)

\* conditionProbabilities before the sum is reconciled
RoundedProbabilities(preds) ==
    LET scores     == ConditionScores(preds)
        totalScore == SetSum(scores, ConditionSet)
    IN  [ c \in ConditionSet |->
            IF totalScore > 0 THEN Percent(scores[c], totalScore)
            ELSE RoundDiv(100, Len(conditions)) ]

RECURSIVE PrimaryScan(_, _, _, _)
\* the forEach over conditions from index i on: the first strictly larger
\* probability takes over as maxProb and primaryCondition
PrimaryScan(probs, i, maxProb, primaryCondition) ==
    IF i > Len(conditions) THEN [primaryCondition |-> primaryCondition, maxProb |-> maxProb]
    ELSE IF probs[conditions[i]] > maxProb
         THEN PrimaryScan(probs, i + 1, probs[conditions[i]], conditions[i])
         ELSE PrimaryScan(probs, i + 1, maxProb, primaryCondition)

\* the rounded percentages returned as they are, whatever their sum
Unreconciled(probs, primaryCondition) == probs

\* "Ensure percentages add up to 100": the difference goes to the primary condition
Reconcile(probs, primaryCondition) ==
    LET sum == SetSum(probs, ConditionSet)
    IN  IF sum # 100
        THEN [probs EXCEPT ![primaryCondition] = @ + (100 - sum)]
        ELSE probs

\* hasInfection: maxProb is a whole percentage, compared with 0.3
HasInfection(primaryCondition, maxProb) ==
    primaryCondition # "Normal Skin" /\ maxProb * 10 > 3

PredictInfectionWithMobileNet(preds) ==
    LET probs == RoundedProbabilities(preds)
        scan  == PrimaryScan(probs, 1, 0, "Normal Skin")
    IN  [ primaryCondition |-> scan.primaryCondition,
          confidence       |-> RoundDiv(preds[1].probability * 100, 1000),
          allConditions    |-> Reconcile(probs, scan.primaryCondition),
          hasInfection     |-> HasInfection(scan.primaryCondition, scan.maxProb),
          modelUsed        |-> TRUE,
          modelType        |-> "MobileNet",
          topPredictions   |-> preds ]

----------------------------------------------------------------------------
(* The model cache: loadCancerModel, loadInfectionModel and their callers  *)

NCallers == 2   \* concurrent callers of the ModelLoader singleton

Callers == 1 .. NCallers

Slots == {"cancer", "infection"}

Methods ==
    { "loadCancerModel", "loadInfectionModel", "loadAllModels",
      "predictCancer", "predictInfection", "analyzeImage" }

NoCall == [method |-> "none", forceReload |-> FALSE]

\* the slots a method works on
SlotsOf(method) ==
    CASE method = "loadCancerModel" -> {"cancer"}
      [] method = "predictCancer" -> {"cancer"}
      [] method = "loadInfectionModel" -> {"infection"}
      [] method = "predictInfection" -> {"infection"}
      [] method = "loadAllModels" -> Slots
      [] method = "analyzeImage" -> Slots
      [] OTHER -> {}

\* the methods that go on to classify once the model is there
Predicts(method) == method \in {"predictCancer", "predictInfection", "analyzeImage"}

\* An async function on one slot.  pc:
\*   "idle"        not started
\*   "polling"     in the loop "while (this.loading[slot]) await setTimeout 100"
\*   "loading"     awaiting mobilenet.load()
\*   "loaded"      load<Slot>Model has returned `model` (0 is null)
\*   "classifying" awaiting model.classify(img)
\*   "done"        predict<Slot> has returned the assessment built from `answer`
\*   "failed"      the function has thrown `error`
IdleThread ==
    [pc |-> "idle", model |-> 0, answer |-> <<>>, error |-> "none"]

\* dispose() has not run
NoDisposal ==
    [ran |-> FALSE, callAt |-> [p \in Callers |-> NoCall], disposed |-> {}]

LoaderIdle ==
    /\ disposal = NoDisposal
    /\ models = [s \in Slots |-> 0]
    /\ loading = [s \in Slots |-> FALSE]
    /\ loads = [s \in Slots |-> 0]
    /\ classifies = [p \in Callers |-> 0]
    /\ call = [p \in Callers |-> NoCall]
    /\ th = [p \in Callers |-> [s \in Slots |-> IdleThread]]

\* useState(null), useState(null), useState(false); 0 stands for null
InitialComponent == [capturedImage |-> 0, analysis |-> None, loading |-> FALSE]

IdleHandler ==
    [pc |-> "idle", image |-> 0, clientFailed |-> FALSE, stored |-> FALSE, alert |-> "none"]

ClockIdle ==
    /\ now = 0
    /\ results = <<>>

CaptureIdle ==
    /\ component = InitialComponent
    /\ handler = IdleHandler
    /\ variant = "CameraCapture.js"

\* no call of the server's analyzeImage has been made
IdleServer == [pc |-> "idle", i |-> 0, invoked |-> <<>>, failed |-> {}, result |-> "none"]

ServerIdle ==
    server = [configured |-> {}, run |-> IdleServer, calls |-> 0]

AppIdle == ClockIdle /\ CaptureIdle /\ ServerIdle

ScorerIdle ==
    /\ img = NoImage
    /\ lesion = None
    /\ modelKind = "MobileNet"
    /\ predictions = <<>>
    /\ customOut = None
    /\ risk = None
    /\ cond = None

----------------------------------------------------------------------------
(* Specification of analyzeLesionDetails over every small two-tone image   *)

InitLesion ==
    /\ LoaderIdle
    /\ AppIdle
    \* img \in ImagesUpTo(MaxPixels, {White, Black}), drawn one size at a time
    /\ \E w \in 1 .. MaxPixels, h \in 1 .. MaxPixels :
          /\ w * h <= MaxPixels
          /\ img \in ImagesOfSize(w, h, {White, Black})
    /\ lesion = None
    /\ modelKind = "MobileNet"
    /\ predictions = <<>>
    /\ customOut = None
    /\ risk = None
    /\ cond = None

AnalyzeLesion ==
    /\ lesion = None
    /\ lesion' = AnalyzeLesionDetails(img)
    /\ UNCHANGED <<img, modelKind, predictions, customOut, risk, cond>>
    /\ UNCHANGED <<loaderVars, appVars>>

\* drawImage / getImageData throws: the catch block answers with the defaults
AnalyzeLesionThrows ==
    /\ lesion = None
    /\ lesion' = LesionDefaults
    /\ UNCHANGED <<img, modelKind, predictions, customOut, risk, cond>>
    /\ UNCHANGED <<loaderVars, appVars>>

NextLesion == AnalyzeLesion \/ AnalyzeLesionThrows

SpecLesion == InitLesion /\ [][NextLesion]_vars

----------------------------------------------------------------------------
(* Specification of analyzeLesionDetails over synthetic disc images        *)

MaxSide == 8   \* a disc image has at most MaxSide x MaxSide pixels

\* the white w x h image with a black filled disc: every pixel within
\* distance r of the centre pixel (cx, cy)
DiscImage(w, h, cx, cy, r) ==
    [ w  |-> w,
      h  |-> h,
      px |-> [ idx \in 0 .. (w * h - 1) |->
                 LET dx == (idx % w) - cx
                     dy == (idx \div w) - cy
                 IN  IF dx * dx + dy * dy <= r * r THEN Black ELSE White ] ]

\* the discs that lie strictly inside their image: a white margin all around
DiscImages ==
    { DiscImage(d[1], d[2], d[3], d[4], d[5]) :
        d \in { e \in (1 .. MaxSide) \X (1 .. MaxSide) \X (0 .. MaxSide)
                        \X (0 .. MaxSide) \X (1 .. MaxSide) :
                  /\ e[3] - e[5] >= 1 /\ e[3] + e[5] <= e[1] - 2
                  /\ e[4] - e[5] >= 1 /\ e[4] + e[5] <= e[2] - 2 } }

InitDisc ==
    /\ LoaderIdle
    /\ AppIdle
    /\ img \in DiscImages
    /\ lesion = None
    /\ modelKind = "MobileNet"
    /\ predictions = <<>>
    /\ customOut = None
    /\ risk = None
    /\ cond = None

SpecDisc == InitDisc /\ [][NextLesion]_vars

----------------------------------------------------------------------------
(* Specification of analyzeLesionDetails over synthetic rectangle images   *)

RectSide == 8   \* a rectangle image has at most RectSide x RectSide pixels

\* the white w x h image with a black filled rectangle of the columns
\* x0 .. x1 and the rows y0 .. y1
RectImage(w, h, x0, x1, y0, y1) ==
    [ w  |-> w,
      h  |-> h,
      px |-> [ idx \in 0 .. (w * h - 1) |->
                 IF /\ (idx % w) \in x0 .. x1
                    /\ (idx \div w) \in y0 .. y1
                 THEN Black ELSE White ] ]

InitRect ==
    /\ LoaderIdle
    /\ AppIdle
    /\ \E w \in 1 .. RectSide, h \in 1 .. RectSide :
         \E x0 \in 0 .. (w - 1), y0 \in 0 .. (h - 1) :
           \E x1 \in x0 .. (w - 1), y1 \in y0 .. (h - 1) :
             img = RectImage(w, h, x0, x1, y0, y1)
    /\ lesion = None
    /\ modelKind = "MobileNet"
    /\ predictions = <<>>
    /\ customOut = None
    /\ risk = None
    /\ cond = None

SpecRect == InitRect /\ [][NextLesion]_vars

----------------------------------------------------------------------------
(* Specification of analyzeLesionDetails over pixels of many colours       *)

MaskPixels == 1   \* an image of the mask specification has w * h <= MaskPixels

\* the channel values the pixels are painted from; (255, 88, 0) has the
\* luminance 127.901 and (128, 128, 128) the luminance 128
ChannelLevels == {0, 88, 128, 255}

Colours == ChannelLevels \X ChannelLevels \X ChannelLevels

InitMask ==
    /\ LoaderIdle
    /\ AppIdle
    /\ \E w \in 1 .. MaskPixels, h \in 1 .. MaskPixels :
          /\ w * h <= MaskPixels
          /\ img \in ImagesOfSize(w, h, Colours)
    /\ lesion = None
    /\ modelKind = "MobileNet"
    /\ predictions = <<>>
    /\ customOut = None
    /\ risk = None
    /\ cond = None

SpecMask == InitMask /\ [][NextLesion]_vars

----------------------------------------------------------------------------
(* Specification of analyzeLesionDetails over lesions of several colours   *)

ColourPixels == 5   \* an image of the colour specification is one row of 1 .. ColourPixels pixels

\* dark colours of four quantisation groups, (0, 0, 0) and (20, 20, 20) in the
\* same one, and white, which is no lesion pixel
DarkGrey == <<20, 20, 20>>
DarkRed == <<88, 0, 0>>
DarkGreen == <<0, 88, 0>>
Blue == <<0, 0, 255>>
LesionPalette == {Black, DarkGrey, DarkRed, DarkGreen, Blue, White}

\* colors (lines 677-683) lists the lesion pixels by index whatever the width,
\* so the rows of every length give every colors array of that length
InitColours ==
    /\ LoaderIdle
    /\ AppIdle
    /\ \E w \in 1 .. ColourPixels : img \in ImagesOfSize(w, 1, LesionPalette)
    /\ lesion = None
    /\ modelKind = "MobileNet"
    /\ predictions = <<>>
    /\ customOut = None
    /\ risk = None
    /\ cond = None

SpecColours == InitColours /\ [][NextLesion]_vars

----------------------------------------------------------------------------
(* Specification of the two cancer prediction paths                        *)

RiskPixels == 2   \* an image of the risk specification has w * h <= RiskPixels
RiskPreds == 1    \* the risk specification draws results of 1 .. RiskPreds predictions

InitRisk ==
    /\ LoaderIdle
    /\ AppIdle
    /\ lesion = None
    /\ risk = None
    /\ cond = None
    /\ modelKind \in {"MobileNet", "Custom"}
    /\ \/ /\ modelKind = "MobileNet"
          /\ predictions \in ClassifierResultsUpTo(MinOf(RiskPreds, TopK))
          /\ img \in ImagesUpTo(RiskPixels, {White, Black, Magenta})
          /\ customOut = None
       \/ /\ modelKind = "Custom"
          /\ predictions = <<>>
          /\ img = NoImage
          /\ customOut \in CustomOutputs

\* predictCancerWithMobileNet once model.classify has answered; the lesion
\* analysis either completes or falls back to its defaults
PredictCancerMobileNet ==
    /\ modelKind = "MobileNet"
    /\ risk = None
    /\ \E la \in {AnalyzeLesionDetails(img), LesionDefaults} :
         /\ lesion' = la
         /\ risk' = PredictCancerWithMobileNet(predictions, la)
    /\ UNCHANGED <<img, modelKind, predictions, customOut, cond>>
    /\ UNCHANGED <<loaderVars, appVars>>

\* predictCancerWithCustomModel once model.predict has answered
PredictCancerCustom ==
    /\ modelKind = "Custom"
    /\ risk = None
    /\ risk' = PredictCancerWithCustomModel(customOut)
    /\ UNCHANGED <<img, lesion, modelKind, predictions, customOut, cond>>
    /\ UNCHANGED <<loaderVars, appVars>>

NextRisk == PredictCancerMobileNet \/ PredictCancerCustom

SpecRisk == InitRisk /\ [][NextRisk]_vars

----------------------------------------------------------------------------
(* Specification of the condition scorer                                   *)

InitCond ==
    /\ LoaderIdle
    /\ AppIdle
    /\ img = NoImage
    /\ lesion = None
    /\ modelKind = "MobileNet"
    /\ predictions \in ClassifierResults
    /\ customOut = None
    /\ risk = None
    /\ cond = None

\* predictInfectionWithMobileNet once model.classify has answered
PredictInfectionMobileNet ==
    /\ cond = None
    /\ cond' = PredictInfectionWithMobileNet(predictions)
    /\ UNCHANGED <<img, lesion, modelKind, predictions, customOut, risk>>
    /\ UNCHANGED <<loaderVars, appVars>>

NextCond == PredictInfectionMobileNet

SpecCond == InitCond /\ [][NextCond]_vars

----------------------------------------------------------------------------
(* Specification of the model cache under concurrent callers               *)

\* what model.classify may answer in the cache specification
LoaderResults ==
    { << [className |-> "melanoma", probability |-> 900] >>,
      << [className |-> "rash", probability |-> 800] >> }

\* the image every caller of the cache specification passes
LoaderImage == [w |-> 2, h |-> 1, px |-> (0 :> Black @@ 1 :> White)]

\* load<Slot>Model up to its first await: the cached model, the polling loop,
\* or a new load behind the loading flag
StartsLoad(s, forceReload) == ~(models[s] # 0 /\ ~forceReload) /\ ~loading[s]

\* an entry that skips the test of the loading flag: whoever finds no cached
\* model (or forces a reload) starts a load of its own
EntryThreadUnguarded(s, forceReload) ==
    IF models[s] # 0 /\ ~forceReload
    THEN [IdleThread EXCEPT !.pc = "loaded", !.model = models[s]]
    ELSE [IdleThread EXCEPT !.pc = "loading"]

EntryThread(s, forceReload) ==
    IF models[s] # 0 /\ ~forceReload
    THEN [IdleThread EXCEPT !.pc = "loaded", !.model = models[s]]
    ELSE IF loading[s]
         THEN [IdleThread EXCEPT !.pc = "polling"]
         ELSE [IdleThread EXCEPT !.pc = "loading"]

\* a caller calls a method: the synchronous part of every load it starts runs
\* at once (cancer before infection, as in Promise.all([...]))
Call(p, method, forceReload) ==
    /\ call[p] = NoCall
    /\ forceReload => method \in {"loadCancerModel", "loadInfectionModel"}
    /\ LET starts == { s \in SlotsOf(method) : StartsLoad(s, forceReload) }
       IN  /\ th' = [th EXCEPT ![p] =
                      [s \in Slots |->
                         IF s \in SlotsOf(method) THEN EntryThread(s, forceReload)
                         ELSE IdleThread]]
           /\ loading' = [s \in Slots |-> loading[s] \/ s \in starts]
           /\ loads' = [s \in Slots |-> IF s \in starts THEN loads[s] + 1 ELSE loads[s]]
    /\ call' = [call EXCEPT ![p] = [method |-> method, forceReload |-> forceReload]]
    /\ UNCHANGED <<models, classifies>>
    /\ UNCHANGED <<scorerVars, appVars, disposal>>

\* the polling loop finds the flag down and returns this.models[slot]
Poll(p, s) ==
    /\ th[p][s].pc = "polling"
    /\ ~loading[s]
    /\ th' = [th EXCEPT ![p][s].pc = "loaded", ![p][s].model = models[s]]
    /\ UNCHANGED <<models, loading, loads, classifies, call>>
    /\ UNCHANGED <<scorerVars, appVars, disposal>>

\* mobilenet.load() resolves: the model is stored and returned, finally resets
\* the flag; the slot's loads run one at a time, so this is load number loads[s]
LoadResolves(p, s) ==
    /\ th[p][s].pc = "loading"
    /\ models' = [models EXCEPT ![s] = loads[s]]
    /\ loading' = [loading EXCEPT ![s] = FALSE]
    /\ th' = [th EXCEPT ![p][s].pc = "loaded", ![p][s].model = loads[s]]
    /\ UNCHANGED <<loads, classifies, call>>
    /\ UNCHANGED <<scorerVars, appVars, disposal>>

\* mobilenet.load() rejects: the catch block throws, finally resets the flag
LoadRejects(p, s) ==
    /\ th[p][s].pc = "loading"
    /\ loading' = [loading EXCEPT ![s] = FALSE]
    /\ th' = [th EXCEPT ![p][s].pc = "failed", ![p][s].error = "load"]
    /\ UNCHANGED <<models, loads, classifies, call>>
    /\ UNCHANGED <<scorerVars, appVars, disposal>>

\* predict<Slot>WithMobileNet: the image fails to load (img.onerror)
ImageFails(p, s) ==
    /\ th[p][s].pc = "loaded"
    /\ Predicts(call[p].method)
    /\ th' = [th EXCEPT ![p][s].pc = "failed", ![p][s].error = "image"]
    /\ UNCHANGED <<models, loading, loads, classifies, call>>
    /\ UNCHANGED <<scorerVars, appVars, disposal>>

\* predict<Slot>WithMobileNet calls model.classify(img); on a null model the
\* call is a TypeError, which the catch block rethrows
Classify(p, s) ==
    /\ th[p][s].pc = "loaded"
    /\ Predicts(call[p].method)
    /\ IF th[p][s].model = 0
       THEN /\ th' = [th EXCEPT ![p][s].pc = "failed", ![p][s].error = "null model"]
            /\ UNCHANGED classifies
       ELSE /\ th' = [th EXCEPT ![p][s].pc = "classifying"]
            /\ classifies' = [classifies EXCEPT ![p] = @ + 1]
    /\ UNCHANGED <<models, loading, loads, call>>
    /\ UNCHANGED <<scorerVars, appVars, disposal>>

\* the assessment a slot's prediction builds from the classifier's answer
AssessmentOf(s, preds) ==
    IF s = "cancer"
    THEN PredictCancerWithMobileNet(preds, AnalyzeLesionDetails(LoaderImage))
    ELSE PredictInfectionWithMobileNet(preds)

\* model.classify(img) resolves with an answer, from which the assessment
\* AssessmentOf(s, answer) is built and returned
ClassifyResolves(p, s) ==
    /\ th[p][s].pc = "classifying"
    /\ \E preds \in LoaderResults :
         th' = [th EXCEPT ![p][s].pc = "done", ![p][s].answer = preds]
    /\ UNCHANGED <<models, loading, loads, classifies, call>>
    /\ UNCHANGED <<scorerVars, appVars, disposal>>

\* model.classify(img) rejects: the catch block rethrows
ClassifyRejects(p, s) ==
    /\ th[p][s].pc = "classifying"
    /\ th' = [th EXCEPT ![p][s].pc = "failed", ![p][s].error = "classify"]
    /\ UNCHANGED <<models, loading, loads, classifies, call>>
    /\ UNCHANGED <<scorerVars, appVars, disposal>>

\* a promise that swallows a slot's failure and resolves once every slot's
\* function has ended
OutcomeWithFallback(p) ==
    LET method == call[p].method
        last   == IF Predicts(method) THEN "done" ELSE "loaded"
    IN  IF method = "none" THEN "none"
        ELSE IF \A s \in SlotsOf(method) : th[p][s].pc \in {last, "failed"}
             THEN "resolved"
             ELSE "pending"

\* the state of the promise a caller's method returned: it rejects as soon as a
\* slot's function has thrown (Promise.all, await, catch-and-rethrow) and
\* resolves once every slot's function has returned
Outcome(p) ==
    LET method == call[p].method
        last   == IF Predicts(method) THEN "done" ELSE "loaded"
    IN  IF method = "none" THEN "none"
        ELSE IF \E s \in SlotsOf(method) : th[p][s].pc = "failed" THEN "rejected"
        ELSE IF \A s \in SlotsOf(method) : th[p][s].pc = last THEN "resolved"
        ELSE "pending"

InitLoad == ScorerIdle /\ LoaderIdle /\ AppIdle

NextLoad ==
    \E p \in Callers :
        \/ \E method \in Methods, forceReload \in BOOLEAN : Call(p, method, forceReload)
        \/ \E s \in Slots :
              \/ Poll(p, s)
              \/ LoadResolves(p, s)
              \/ LoadRejects(p, s)
              \/ ImageFails(p, s)
              \/ Classify(p, s)
              \/ ClassifyResolves(p, s)
              \/ ClassifyRejects(p, s)

SpecLoad == InitLoad /\ [][NextLoad]_vars

----------------------------------------------------------------------------
(* Specification of the model cache with dispose()                         *)

\* dispose(): each model held is disposed and its slot set to null.  A model
\* is named by its slot and the number of the load that made it; callAt
\* keeps the calls made so far, to tell whether one was started afterwards.
Dispose ==
    /\ models' = [s \in Slots |-> 0]
    /\ disposal' = [ran      |-> TRUE,
                    callAt   |-> call,
                    disposed |-> disposal.disposed
                                   \cup { <<s, models[s]>> : s \in { t \in Slots : models[t] # 0 } }]
    /\ UNCHANGED <<loading, loads, classifies, call, th>>
    /\ UNCHANGED <<scorerVars, appVars>>

NextDispose == NextLoad \/ Dispose

SpecDispose == InitLoad /\ [][NextDispose]_vars

----------------------------------------------------------------------------
(* Specification of the model cache with callers that call again, under    *)
(* the fairness the event loop gives                                       *)

MaxLoads == 3   \* loads[slot] counts up to MaxLoads and stays there

\* A caller whose loadCancerModel / loadInfectionModel call has returned or
\* thrown calls the same method again with the same argument (a retry after
\* a failure, a periodic reload): the synchronous part of load<Slot>Model
\* runs as in Call.
CallAgain(p, s) ==
    /\ call[p].method \in {"loadCancerModel", "loadInfectionModel"}
    /\ s \in SlotsOf(call[p].method)
    /\ th[p][s].pc \in {"loaded", "failed"}
    /\ LET starts == StartsLoad(s, call[p].forceReload)
       IN  /\ th' = [th EXCEPT ![p][s] = EntryThread(s, call[p].forceReload)]
           /\ loading' = [loading EXCEPT ![s] = @ \/ starts]
           /\ loads' = [loads EXCEPT ![s] =
                          IF starts /\ @ < MaxLoads THEN @ + 1 ELSE @]
    /\ UNCHANGED <<models, classifies, call>>
    /\ UNCHANGED <<scorerVars, appVars, disposal>>

NextRetry ==
    \/ NextLoad
    \/ \E p \in Callers, s \in Slots : CallAgain(p, s)

\* every mobilenet.load() settles; the timer of every polling loop fires, and
\* the loop ends if it then finds the flag down
FairRetry ==
    \A p \in Callers, s \in Slots :
        /\ WF_vars(LoadResolves(p, s) \/ LoadRejects(p, s))
        /\ WF_vars(Poll(p, s))

SpecRetry == InitLoad /\ [][NextRetry]_vars /\ FairRetry

----------------------------------------------------------------------------
(* Specification of the pattern flags of predictCancerWithMobileNet, over  *)
(* images that bring the descriptors to both sides of their thresholds     *)

PatternPixels == 6   \* the small two-tone images have w * h <= PatternPixels
MaxRows == 9         \* the two-column images have at most MaxRows rows
SolidSide == 27      \* the largest solid dark square has SolidSide x SolidSide pixels

\* two columns of h rows: the left one black, the right one with its k top
\* pixels of colour c above white ones
TwoColumnImage(h, k, c) ==
    [ w  |-> 2,
      h  |-> h,
      px |-> [ idx \in 0 .. (2 * h - 1) |->
                 IF idx % 2 = 0 THEN Black
                 ELSE IF idx \div 2 < k THEN c ELSE White ] ]

\* a square with every pixel black
SolidImage(n) == [w |-> n, h |-> n, px |-> [idx \in 0 .. (n * n - 1) |-> Black]]

PatternImages ==
    ImagesUpTo(PatternPixels, {White, Black})
        \cup { TwoColumnImage(d[1], d[2], c) :
                 d \in { e \in (1 .. MaxRows) \X (0 .. MaxRows) : e[2] <= e[1] },
                 c \in {Black, Magenta} }
        \cup { SolidImage(n) : n \in (SolidSide - 1) .. SolidSide }

InitPatterns ==
    /\ LoaderIdle
    /\ AppIdle
    /\ img \in PatternImages
    /\ predictions \in LoaderResults
    /\ modelKind = "MobileNet"
    /\ customOut = None
    /\ lesion = None
    /\ risk = None
    /\ cond = None

NextPatterns == PredictCancerMobileNet

SpecPatterns == InitPatterns /\ [][NextPatterns]_vars

----------------------------------------------------------------------------
(* Specification of repeated analyzeImage calls on one image, with a       *)
(* classifier that answers the same predictions every time                 *)

MaxClock == 2   \* the clock reads 0 .. MaxClock milliseconds
MaxCalls == 2   \* analyzeImage is called at most MaxCalls times

Digits == "0123456789"

Digit(d) == SubSeq(Digits, d + 1, d + 1)

\* new Date().toISOString() at `ms` milliseconds (ms < 1000) after the epoch
ToISOString(ms) ==
    "1970-01-01T00:00:00."
        \o Digit(ms \div 100) \o Digit((ms \div 10) % 10) \o Digit(ms % 10) \o "Z"

\* the record analyzeImage resolves with when both predictions have been made
\* from the answer `preds` and the clock reads `ms`
AnalyzeImage(im, preds, ms) ==
    [ cancer     |-> PredictCancerWithMobileNet(preds, AnalyzeLesionDetails(im)),
      infection  |-> PredictInfectionWithMobileNet(preds),
      analyzedAt |-> ToISOString(ms) ]

InitAnalyze ==
    /\ LoaderIdle
    /\ img \in ImagesUpTo(RiskPixels, {White, Black, Magenta})
    /\ predictions \in LoaderResults
    /\ lesion = None
    /\ modelKind = "MobileNet"
    /\ customOut = None
    /\ risk = None
    /\ cond = None
    /\ now = 0
    /\ results = <<>>
    /\ CaptureIdle
    /\ ServerIdle

\* a millisecond passes
Tick ==
    /\ now < MaxClock
    /\ now' = now + 1
    /\ UNCHANGED results
    /\ UNCHANGED <<scorerVars, loaderVars, captureVars, serverVars>>

\* one call of analyzeImage(img) from its start to its return
AnalyzeImageReturns ==
    /\ Len(results) < MaxCalls
    /\ results' = Append(results, AnalyzeImage(img, predictions, now))
    /\ UNCHANGED now
    /\ UNCHANGED <<scorerVars, loaderVars, captureVars, serverVars>>

NextAnalyze == Tick \/ AnalyzeImageReturns

SpecAnalyze == InitAnalyze /\ [][NextAnalyze]_vars

----------------------------------------------------------------------------
(* Specification of the CameraCapture component: capture, retake and the   *)
(* asynchronous analyzeImage handler, in its two source variants:          *)
(*   "CameraCapture.js"  client/src/components/CameraCapture.js            *)
(*   "part_008"          unnamed/part_008, which falls back to the server  *)
(*                       when the client-side analysis fails               *)
(* handler.pc: "idle", "analyzing" (awaiting modelLoader.analyzeImage),    *)
(* "serverAnalyzing" (awaiting api.analyzeImageServer), "uploading"        *)
(* (awaiting fetch and api.uploadImage), "saving" (awaiting                *)
(* api.analyzeImage), "done".  handler.clientFailed, .stored and .alert    *)
(* record what this run has seen and done.                                 *)

NCaptures == 2   \* the webcam gives the screenshots 1 .. NCaptures

Variants == {"CameraCapture.js", "part_008"}

InitCapture ==
    /\ ScorerIdle
    /\ LoaderIdle
    /\ ClockIdle
    /\ ServerIdle
    /\ component = InitialComponent
    /\ handler = IdleHandler
    /\ variant \in Variants

\* capture(): the camera view is shown while capturedImage is null
Capture ==
    /\ component.capturedImage = 0
    /\ \E i \in 1 .. NCaptures : component' = [component EXCEPT !.capturedImage = i]
    /\ UNCHANGED <<handler, variant>>
    /\ UNCHANGED <<scorerVars, loaderVars, clockVars, serverVars>>

\* retake(): the preview is shown while capturedImage is set
Retake ==
    /\ component.capturedImage # 0
    /\ component' = [component EXCEPT !.capturedImage = 0, !.analysis = None]
    /\ UNCHANGED <<handler, variant>>
    /\ UNCHANGED <<scorerVars, loaderVars, clockVars, serverVars>>

\* the Analyze button is rendered while there is no analysis and is disabled
\* while loading; the handler runs to its first await
PressAnalyze ==
    /\ component.capturedImage # 0
    /\ component.analysis = None
    /\ ~component.loading
    /\ component' = [component EXCEPT !.loading = TRUE]
    /\ handler' = [IdleHandler EXCEPT !.pc = "analyzing", !.image = component.capturedImage]
    /\ UNCHANGED variant
    /\ UNCHANGED <<scorerVars, loaderVars, clockVars, serverVars>>

\* catch: alert(`Error: ...`); finally: setLoading(false)
Fail(h) ==
    /\ handler' = [h EXCEPT !.pc = "done", !.alert = "error"]
    /\ component' = [component EXCEPT !.loading = FALSE]

\* setAnalysis(fullAnalysis) with the results of `by`, then the upload starts
Store(by) ==
    /\ handler' = [handler EXCEPT !.pc = "uploading", !.stored = TRUE]
    /\ component' = [component EXCEPT !.analysis = [of |-> handler.image, by |-> by]]

\* modelLoader.analyzeImage(capturedImage) resolves
ClientAnalysisResolves ==
    /\ handler.pc = "analyzing"
    /\ Store("client")
    /\ UNCHANGED variant
    /\ UNCHANGED <<scorerVars, loaderVars, clockVars, serverVars>>

\* modelLoader.analyzeImage(capturedImage) rejects: a model load, a classify
\* call or the decoding of the image threw
ClientAnalysisRejects ==
    /\ handler.pc = "analyzing"
    /\ IF variant = "part_008"
       THEN /\ handler' = [handler EXCEPT !.pc = "serverAnalyzing", !.clientFailed = TRUE]
            /\ UNCHANGED component
       ELSE Fail([handler EXCEPT !.clientFailed = TRUE])
    /\ UNCHANGED variant
    /\ UNCHANGED <<scorerVars, loaderVars, clockVars, serverVars>>

\* api.analyzeImageServer(formData) resolves with the server's analysis
ServerAnalysisResolves ==
    /\ handler.pc = "serverAnalyzing"
    /\ Store("server")
    /\ UNCHANGED variant
    /\ UNCHANGED <<scorerVars, loaderVars, clockVars, serverVars>>

\* fetch or api.analyzeImageServer rejects: getFallbackCancerAnalysis() throws
ServerAnalysisRejects ==
    /\ handler.pc = "serverAnalyzing"
    /\ Fail(handler)
    /\ UNCHANGED variant
    /\ UNCHANGED <<scorerVars, loaderVars, clockVars, serverVars>>

\* api.uploadImage resolves, with uploadResponse.success or without
UploadResolves ==
    /\ handler.pc = "uploading"
    /\ \E success \in BOOLEAN :
         IF success
         THEN /\ handler' = [handler EXCEPT !.pc = "saving"]
              /\ UNCHANGED component
         ELSE /\ handler' = [handler EXCEPT !.pc = "done", !.alert = "upload"]
              /\ component' = [component EXCEPT !.loading = FALSE]
    /\ UNCHANGED variant
    /\ UNCHANGED <<scorerVars, loaderVars, clockVars, serverVars>>

\* fetch(capturedImage) or api.uploadImage rejects
UploadRejects ==
    /\ handler.pc = "uploading"
    /\ Fail(handler)
    /\ UNCHANGED variant
    /\ UNCHANGED <<scorerVars, loaderVars, clockVars, serverVars>>

\* api.analyzeImage(id, ...) resolves; finally: setLoading(false)
SaveResolves ==
    /\ handler.pc = "saving"
    /\ handler' = [handler EXCEPT !.pc = "done"]
    /\ component' = [component EXCEPT !.loading = FALSE]
    /\ UNCHANGED variant
    /\ UNCHANGED <<scorerVars, loaderVars, clockVars, serverVars>>

\* api.analyzeImage(id, ...) rejects
SaveRejects ==
    /\ handler.pc = "saving"
    /\ Fail(handler)
    /\ UNCHANGED variant
    /\ UNCHANGED <<scorerVars, loaderVars, clockVars, serverVars>>

NextCapture ==
    \/ Capture
    \/ Retake
    \/ PressAnalyze
    \/ ClientAnalysisResolves
    \/ ClientAnalysisRejects
    \/ ServerAnalysisResolves
    \/ ServerAnalysisRejects
    \/ UploadResolves
    \/ UploadRejects
    \/ SaveResolves
    \/ SaveRejects

SpecCapture == InitCapture /\ [][NextCapture]_vars

----------------------------------------------------------------------------
(* Specification of the server's analyzeImage (mlService.js)               *)

MaxServerCalls == 2   \* the server's analyzeImage is called at most MaxServerCalls times

\* the names of analysisMethods, in the order of the array literal
analysisMethods ==
    << "Custom ML Service", "TensorFlow.js", "Hugging Face", "Google Vision",
       "AWS Rekognition" >>

MethodNames == { analysisMethods[k] : k \in 1 .. Len(analysisMethods) }

\* a loop without the catch block: the method's error rejects analyzeImage
OnMethodErrorRethrow(run) ==
    [run EXCEPT !.pc = "rejected",
                !.failed = run.failed \cup {analysisMethods[run.i]}]

\* the catch block of the loop: warn and continue with the next method; past
\* the last method the loop ends and analyzeImage returns null
OnMethodError(run) ==
    LET failed == run.failed \cup {analysisMethods[run.i]}
    IN  IF run.i < Len(analysisMethods)
        THEN [run EXCEPT !.i = @ + 1,
                         !.invoked = Append(@, analysisMethods[run.i + 1]),
                         !.failed = failed]
        ELSE [run EXCEPT !.pc = "returned", !.failed = failed, !.result = "null"]

\* As written every method throws '... not configured'; a deployment
\* uncomments the body of the methods it configures, and such a method
\* either returns a result or throws.
InitServer ==
    /\ ScorerIdle
    /\ LoaderIdle
    /\ ClockIdle
    /\ CaptureIdle
    /\ \E c \in SUBSET MethodNames :
         server = [configured |-> c, run |-> IdleServer, calls |-> 0]

\* analyzeImage(imageBuffer) is called: the loop starts with the first method
ServerAnalyzeImage ==
    /\ server.run.pc \in {"idle", "returned"}
    /\ server.calls < MaxServerCalls
    /\ server' = [server EXCEPT
                    !.calls = @ + 1,
                    !.run = [pc |-> "trying", i |-> 1,
                             invoked |-> <<analysisMethods[1]>>,
                             failed |-> {}, result |-> "none"]]
    /\ UNCHANGED <<scorerVars, loaderVars, clockVars, captureVars>>

\* await method.fn(imageBuffer) resolves: return result
MethodResolves ==
    /\ server.run.pc = "trying"
    /\ analysisMethods[server.run.i] \in server.configured
    /\ server' = [server EXCEPT !.run.pc = "returned",
                                !.run.result = analysisMethods[server.run.i]]
    /\ UNCHANGED <<scorerVars, loaderVars, clockVars, captureVars>>

\* await method.fn(imageBuffer) rejects
MethodRejects ==
    /\ server.run.pc = "trying"
    /\ server' = [server EXCEPT !.run = OnMethodError(server.run)]
    /\ UNCHANGED <<scorerVars, loaderVars, clockVars, captureVars>>

NextServer == ServerAnalyzeImage \/ MethodResolves \/ MethodRejects

SpecServer == InitServer /\ [][NextServer]_vars

----------------------------------------------------------------------------
(* Specification of what CameraCapture shows for an analysis:              *)
(* generateRecommendations and getRiskLevel                                *)

\* generateRecommendations(results); the first string is written without the
\* warning sign that precedes it in the source
generateRecommendations(res) ==
    ( IF res.cancer.cancerPercentage >= 20
      THEN << "High risk detected - Consult a dermatologist immediately",
              "Schedule a professional skin examination" >>
      ELSE IF res.cancer.cancerPercentage >= 15
           THEN << "Moderate risk - Monitor closely and consult a dermatologist" >>
           ELSE << "Low risk - Continue regular monitoring" >> )
    \o ( IF res.infection.hasInfection
         THEN << "Possible " \o res.infection.primaryCondition \o " detected",
                 "Consider consulting a healthcare provider for proper diagnosis" >>
              \o ( IF Includes(res.infection.primaryCondition, "Bacterial")
                   THEN << "Keep the area clean and dry" >>
                   ELSE IF Includes(res.infection.primaryCondition, "Fungal")
                        THEN << "Avoid sharing personal items and keep area dry" >>
                        ELSE << >> )
         ELSE << >> )
    \o << "Use sun protection (SPF 30+)",
          "Monitor for any changes in size, color, or texture" >>

\* getRiskLevel(percentage).level
getRiskLevel(percentage) ==
    IF percentage < 15 THEN "Low"
    ELSE IF percentage < 25 THEN "Moderate"
    ELSE "High"

\* the assessments the two predictions may hand to the component: every
\* clamped cancerPercentage, every primary condition, infected or not
InitDisplay ==
    /\ LoaderIdle
    /\ AppIdle
    /\ img = NoImage
    /\ lesion = None
    /\ modelKind = "MobileNet"
    /\ predictions = <<>>
    /\ customOut = None
    /\ \E pct \in 0 .. 100 : risk = [cancerPercentage |-> ClampPercentage(pct)]
    /\ \E c \in ConditionSet, b \in BOOLEAN :
          cond = [primaryCondition |-> c, hasInfection |-> b]

\* the handler builds fullAnalysis with the recommendations, setAnalysis
\* stores it, and the results panel renders getRiskLevel(...).level
ShowAnalysis ==
    /\ component.analysis = None
    /\ component' =
          [component EXCEPT !.analysis =
             [ cancer          |-> risk,
               infection       |-> cond,
               recommendations |-> generateRecommendations([cancer |-> risk, infection |-> cond]),
               riskLevel       |-> getRiskLevel(risk.cancerPercentage) ]]
    /\ UNCHANGED <<now, results, handler, variant>>
    /\ UNCHANGED <<scorerVars, loaderVars, serverVars>>

NextDisplay == ShowAnalysis

SpecDisplay == InitDisplay /\ [][NextDisplay]_vars

----------------------------------------------------------------------------
(* Properties                                                              *)

\* the lesion pixels' deviation ratio exceeds 1 before Math.min(1, .)
BorderRatioAboveOne(im) ==
    LET mask   == LesionMask(im)
        bb     == BBox(im, mask)
        border == BorderPixels(im, mask, bb)
        f      == BorderIrregularityUnclamped(im, bb, border, AvgRadius(Cardinality(mask)))
    IN  f.num > f.den

\* r = Math.round(num / den), stated by its defining inequalities
IsRounded(r, num, den) == 2 * den * r - den <= 2 * num /\ 2 * num < 2 * den * r + den

\* x clamped to [5, 95], stated case by case
Clamped(x) == IF x < 5 THEN 5 ELSE IF x > 95 THEN 95 ELSE x

\* C1: every risk assessment the cancer prediction functions return, on the
\* MobileNet path and on the custom-model path, has an integer cancerPercentage
\* with 5 <= cancerPercentage <= 95.
C1_CancerPercentageBounded ==
    risk # None => risk.cancerPercentage \in 5 .. 95

\* C1 witness: a cancer-keyword label with probability 1 scores 100 before the
\* clamp and is returned as 95.
C1_Witness ==
    /\ risk # None
    /\ modelKind = "MobileNet"
    /\ CancerPercentageOf(predictions[1]) = 100
    /\ risk.cancerPercentage = 95

\* C2: the six values of allConditions that predictInfectionWithMobileNet
\* returns sum to exactly 100, for every classifier result of 1 to 3
\* predictions, all-zero probabilities included.
C2_AllConditionsSumTo100 ==
    cond # None => SetSum(cond.allConditions, ConditionSet) = 100

\* C2 witness: all probabilities are zero, the six rounded shares are 17 each
\* (sum 102), and the returned map still sums to 100.
C2_Witness ==
    /\ cond # None
    /\ \A i \in 1 .. Len(predictions) : predictions[i].probability = 0
    /\ SetSum(RoundedProbabilities(predictions), ConditionSet) = 102
    /\ SetSum(cond.allConditions, ConditionSet) = 100

C4_LoadedAtMostOnce ==
    loads["cancer"] + loads["infection"] <= 1

\* C5 (as claimed): an analyzeImage call that has resolved has invoked
\* model.classify exactly once.
C5_ClassifyExactlyOnce ==
    \A p \in Callers :
        (call[p].method = "analyzeImage" /\ Outcome(p) = "resolved") => classifies[p] = 1

\* C6 (as claimed): a load<Slot>Model call never returns an absent (null) model;
\* a caller that waited on a load that failed fails too.
C6_NoNullModelReturned ==
    \A p \in Callers, s \in Slots : th[p][s].pc = "loaded" => th[p][s].model # 0

\* C7 (as claimed): the circularity analyzeLesionDetails returns lies in [0, 1]
\* for every lesion mask.
C7_CircularityInUnitInterval ==
    lesion # None => lesion.circularity \in 0 .. 100

\* C8: the asymmetryScore and the borderIrregularity analyzeLesionDetails
\* returns lie in [0, 1] for every lesion mask, as rounded and as raw scores.
C8_AsymmetryAndBorderInUnitInterval ==
    lesion # None =>
        /\ lesion.asymmetryScore \in 0 .. 100
        /\ lesion.borderIrregularity \in 0 .. 100
        /\ 0 <= lesion.asymmetry.num /\ lesion.asymmetry.num <= lesion.asymmetry.den
        /\ 0 <= lesion.border.num /\ lesion.border.num <= lesion.border.den

\* C8 witness: a mask whose border pixels deviate from the average radius by
\* more than the radius itself, so that the clamp decides the result.
C8_Witness ==
    /\ lesion # None
    /\ lesion.area > 0
    /\ BorderRatioAboveOne(img)
    /\ lesion.borderIrregularity = 100

\* the keyword class of each class name, by hand
ExpectedKind ==
    [ l \in Labels |->
        CASE l \in {"melanoma", "Skin Cancer"} -> "cancer"
          [] l \in {"rash", "viral rash", "mole", "scaly dry skin", "Healthy Clear Skin"}
               -> "skin"
          [] OTHER -> "other" ]

C10_EvolvingAlwaysFalse ==
    risk # None => risk.patterns.evolving = FALSE

\* C11 (as claimed): in every condition assessment hasInfection is true if and
\* only if primaryCondition is not 'Normal Skin' and the primary condition's
\* percentage in allConditions is greater than 30.
C11_HasInfectionIffAbove30 ==
    cond # None =>
        (cond.hasInfection <=>
            /\ cond.primaryCondition # "Normal Skin"
            /\ cond.allConditions[cond.primaryCondition] > 30)

\* C12 (as claimed): in every returned condition assessment primaryCondition is
\* an argmax of the returned allConditions: no condition has a strictly larger
\* value than allConditions[primaryCondition], the rounding residue included.
C12_PrimaryIsArgmax ==
    cond # None =>
        \A c \in ConditionSet :
            cond.allConditions[c] <= cond.allConditions[cond.primaryCondition]

\* C13 (as claimed): two analyzeImage calls on the same image, with a
\* classifier that answers the same predictions both times, return identical
\* records: every field of the second equals the same field of the first.
C13_SameImageSameRecord ==
    \A i, j \in 1 .. Len(results) : results[i] = results[j]

\* every pixel of the image is R = G = B = 255
AllWhite(im) == \A idx \in DOMAIN im.px : im.px[idx] = White

C15_EmptyMaskZeroDefaults ==
    [][ (LesionMask(img) = {} /\ AnalyzeLesion) =>
            /\ lesion'.width = 0 /\ lesion'.height = 0
            /\ lesion'.widthMM = 0 /\ lesion'.heightMM = 0
            /\ lesion'.area = 0
            /\ lesion'.diameterMM = 0 /\ lesion'.diameter.num = 0
            /\ lesion'.circularity = 0
            /\ lesion'.asymmetryScore = 0
            /\ lesion'.borderIrregularity = 0
            /\ lesion'.aspectRatio = 100 ]_vars

\* C16 (as claimed): for every classifier result of 1 to 3 predictions in
\* descending order of confidence whose top prediction is 'rash' with
\* confidence 0.8, the returned allConditions gives Eczema strictly more than
\* Normal Skin, and sums to 100.
C16_RashPutsEczemaAboveNormalSkin ==
    (cond # None /\ predictions[1] = [className |-> "rash", probability |-> 800]) =>
        /\ cond.allConditions["Eczema"] > cond.allConditions["Normal Skin"]
        /\ SetSum(cond.allConditions, ConditionSet) = 100

\* the conditions with a keyword that the class name of `pred` includes
MatchedConditions(pred) == { c \in ConditionSet : matchCounts[pred.className][c] > 0 }

\* C19 (as claimed): a prediction of weight w = confidence * (3 - index) / 3
\* adds the residual w * 10 to Normal Skin exactly when its label matches no
\* keyword of any of the six conditions; a label that matches some condition
\* but none of Normal Skin's keywords adds nothing to Normal Skin, so that a
\* single such prediction leaves Normal Skin at 0 percent.
C19_ResidualOnlyWhenNothingMatches ==
    cond # None =>
        \A i \in 1 .. Len(predictions) :
            LET pred     == predictions[i]
                matched  == MatchedConditions(pred)
                residual == pred.probability * (3 - (i - 1)) * KeywordLcm
                toNormal == Contribution(pred, i, "Normal Skin")
            IN  /\ matched = {} => toNormal = residual
                /\ (matched # {} /\ "Normal Skin" \notin matched) =>
                       /\ toNormal = 0
                       /\ (Len(predictions) = 1 /\ pred.probability > 0)
                              => cond.allConditions["Normal Skin"] = 0

\* C18 (as claimed): for a filled digital disc lying strictly inside the image,
\* analyzeLesionDetails returns a circularity within a small tolerance of 1.0
\* (here: within 0.25) and shape 'Round'.
C18_DiscIsCircular ==
    [][ AnalyzeLesion =>
            /\ lesion'.circularity \in 75 .. 125
            /\ lesion'.shape = "Round" ]_vars

\* colorVariation > 0.65 on the value line 699 computes, exactly: with S the
\* sum over the channels of n * sum(x^2) - sum(x)^2 (n^2 times the variance),
\* sqrt(S) / (255 n) > 0.65 iff 16 S > 663^2 n^2, as 0.65 * 255 = 663 / 4
ColorVariationAbove65(im) ==
    LET mask  == LesionMask(im)
        n     == Cardinality(mask)
        Sq(k) == PixelSum([idx \in mask |-> im.px[idx][k] * im.px[idx][k]], mask, im)
        Su(k) == PixelSum([idx \in mask |-> im.px[idx][k]], mask, im)
        S     == (n * Sq(1) - Su(1) * Su(1)) + (n * Sq(2) - Su(2) * Su(2))
                 + (n * Sq(3) - Su(3) * Su(3))
    IN  n > 0 /\ 16 * S > 663 * 663 * n * n

\* C20 (as claimed): on the general-classifier path every pattern flag is the
\* threshold test of its descriptor as computed from the mask: asymmetry iff
\* asymmetryScore > 0.6, border iff borderIrregularity > 0.55, color iff
\* colorVariation > 0.65, diameter iff Math.min(1, diameterMM / 6) > 0.5; no
\* descriptor strictly above its threshold gives a false flag.  (The border
\* descriptor is compared by its two-decimal value here, the model keeping
\* distances to a thousandth of a pixel only.)
C20_FlagsAreThresholdTests ==
    (risk # None /\ modelKind = "MobileNet" /\ lesion = AnalyzeLesionDetails(img)) =>
        /\ risk.patterns.asymmetry <=> FracAbove(lesion.asymmetry, 60)
        /\ risk.patterns.border <=> lesion.borderIrregularity > 55
        /\ risk.patterns.color <=> ColorVariationAbove65(img)
        /\ risk.patterns.diameter <=> FracAbove(lesion.diameter, 50)

\* C17 (as claimed): in the CameraCapture analyze handler, whenever the
\* analysis fails (modelLoader.analyzeImage throws), that run of the handler
\* stores no analysis in component state and, once it has ended, has shown the
\* error alert and reset the loading flag to false.
C17_FailedAnalysisStoresNothing ==
    handler.clientFailed =>
        /\ ~handler.stored
        /\ handler.pc = "done" => (handler.alert = "error" /\ ~component.loading)

\* the shape label as claimed, from the unrounded aspectRatio (ar) and
\* circularity (circ): both bounds of the Round band inclusive
ShapeLabelInclusive(ar, circ) ==
    IF /\ ar.num * 10 >= 8 * ar.den /\ ar.num * 10 <= 12 * ar.den
       /\ circ.num * 10 > 7 * circ.den
    THEN "Round"
    ELSE IF ar.num * 10 > 15 * ar.den \/ ar.num * 100 < 67 * ar.den
         THEN "Irregular"
         ELSE "Oval"

\* the aspectRatio and circularity of an image before rounding (lines 655, 674)
AspectRatioOf(im) ==
    LET bb == BBox(im, LesionMask(im))
    IN  IF bb.maxX - bb.minX > 0
        THEN [num |-> bb.maxY - bb.minY, den |-> bb.maxX - bb.minX]
        ELSE [num |-> 1, den |-> 1]

CircularityOf(im) ==
    LET mask == LesionMask(im)
    IN  CircularityFrac(Cardinality(mask),
                        Cardinality(BorderPixels(im, mask, BBox(im, mask))))

\* C21 (as claimed): the shape analyzeLesionDetails returns is 'Round' exactly
\* when 0.8 <= aspectRatio <= 1.2 and circularity > 0.7, otherwise 'Irregular'
\* exactly when aspectRatio > 1.5 or aspectRatio < 0.67, otherwise 'Oval'.
C21_ShapeLabelInclusive ==
    [][ AnalyzeLesion =>
          lesion'.shape = ShapeLabelInclusive(AspectRatioOf(img), CircularityOf(img))
      ]_vars

\* the pixels whose luminance 0.299 R + 0.587 G + 0.114 B is below the
\* threshold, the luminance taken exactly (in thousandths)
LuminanceMask(im) ==
    { idx \in 0 .. (im.w * im.h - 1) :
        299 * im.px[idx][1] + 587 * im.px[idx][2] + 114 * im.px[idx][3]
            < 1000 * threshold }

\* C22 (as claimed): a pixel is a lesion-mask member exactly when its
\* luminance 0.299 R + 0.587 G + 0.114 B is below 128, so the area
\* analyzeLesionDetails returns counts exactly those pixels.
C22_MaskIsLuminanceBelowThreshold ==
    [][ AnalyzeLesion => lesion'.area = Cardinality(LuminanceMask(img)) ]_vars

\* the quantisation group of a colour: each channel rounded down to a
\* multiple of 32
GroupOf(c) == << (c[1] \div 32) * 32, (c[2] \div 32) * 32, (c[3] \div 32) * 32 >>

\* the quantisation groups that hold a lesion pixel of the image
GroupsOf(im) == { GroupOf(im.px[idx]) : idx \in LesionMask(im) }

\* what C23 says of a list dc of dominant colours of the image im
DominantColorsAsClaimed(im, dc) ==
    LET mask   == LesionMask(im)
        total  == Cardinality(mask)
        groups == GroupsOf(im)
        count  == [ q \in groups |->
                      Cardinality({ idx \in mask : GroupOf(im.px[idx]) = q }) ]
        listed == { dc[i].rgb : i \in 1 .. Len(dc) }
    IN  /\ Len(dc) <= 3
        /\ total = 0 => dc = <<>>
        /\ Len(dc) = MinOf(3, Cardinality(groups))
        /\ Cardinality(listed) = Len(dc)
        /\ listed \subseteq groups
        /\ \A i \in 1 .. Len(dc) :
              /\ \A k \in 1 .. 3 : dc[i].rgb[k] % 32 = 0
              /\ dc[i].percentage = RoundDiv(100 * count[dc[i].rgb], total)
              /\ dc[i].percentage \in 0 .. 100
              /\ i > 1 => count[dc[i - 1].rgb] >= count[dc[i].rgb]
              /\ \A q \in groups \ listed : count[q] <= count[dc[i].rgb]

\* C23: extractDominantColors returns at most 3 entries, the most frequent
\* colours after quantising each channel down to a multiple of 32, in
\* non-increasing order of pixel count, each with percentage =
\* round(100 * count / lesion pixels) in 0 .. 100; no lesion pixel, empty list.
\* (The shape 'Unknown' marks the defaults of the catch block, where
\* extractDominantColors is not called.)
C23_DominantColors ==
    (lesion # None /\ lesion.shape # "Unknown") =>
        DominantColorsAsClaimed(img, lesion.dominantColors)

\* C23 witness: a lesion of four quantisation groups, two of its colours in
\* one group, has been analysed and three dominant colours are listed.
C23_Witness ==
    /\ lesion # None
    /\ lesion.shape # "Unknown"
    /\ Cardinality(GroupsOf(img)) = 4
    /\ \E i, j \in LesionMask(img) : img.px[i] = Black /\ img.px[j] = DarkGrey
    /\ Len(lesion.dominantColors) = 3
    /\ lesion.dominantColors[1].rgb = <<0, 0, 0>>
    /\ lesion.dominantColors[1].percentage = 40

\* C24: the server's analyzeImage tries Custom ML Service, TensorFlow.js,
\* Hugging Face, Google Vision, AWS Rekognition in that order; it returns the
\* result of the first method that succeeds and invokes no method after it;
\* when every method fails it returns null, and it never throws.
C24_FirstSuccessInFixedOrder ==
    LET run == server.run
        n   == Len(run.invoked)
    IN  /\ run.invoked = SubSeq(<< "Custom ML Service", "TensorFlow.js", "Hugging Face",
                                   "Google Vision", "AWS Rekognition" >>, 1, n)
        /\ run.pc # "rejected"
        /\ run.pc = "trying" =>
              run.failed = { run.invoked[k] : k \in 1 .. (n - 1) }
        /\ run.pc = "returned" =>
              \/ /\ run.result = "null"
                 /\ n = 5
                 /\ run.failed = { run.invoked[k] : k \in 1 .. 5 }
              \/ /\ run.result = run.invoked[n]
                 /\ run.failed = { run.invoked[k] : k \in 1 .. (n - 1) }

\* C24 witness: the first two methods have failed, Hugging Face has answered
\* and analyzeImage has returned its result, the last two methods not invoked.
C24_Witness ==
    /\ server.run.pc = "returned"
    /\ server.run.result = "Hugging Face"
    /\ server.run.failed = {"Custom ML Service", "TensorFlow.js"}
    /\ Len(server.run.invoked) = 3

\* C25 (as claimed): whenever CameraCapture holds both a captured image and an
\* analysis, the analysis was computed from that captured image, under every
\* interleaving of capture, retake and the completion of the analyze handler.
C25_AnalysisIsOfCapturedImage ==
    (component.capturedImage # 0 /\ component.analysis # None) =>
        component.analysis.of = component.capturedImage

\* C26: for each model slot taken separately, at most one underlying model
\* load is in flight at any time, under any interleaving of concurrent
\* loadCancerModel / loadInfectionModel calls, forceReload = true included;
\* the slot's loading flag is up exactly while that load is in flight.
C26_OneLoadInFlightPerSlot ==
    \A s \in Slots :
        LET inFlight == { p \in Callers : th[p][s].pc = "loading" }
        IN  /\ Cardinality(inFlight) <= 1
            /\ loading[s] <=> inFlight # {}

\* C26 witness: a load of the cancer slot is in flight while another caller,
\* who called loadCancerModel(true), waits in the polling loop.
C26_Witness ==
    \E p, q \in Callers :
        /\ th[p]["cancer"].pc = "loading"
        /\ call[q] = [method |-> "loadCancerModel", forceReload |-> TRUE]
        /\ th[q]["cancer"].pc = "polling"

\* C27 (as claimed): once dispose() has run and no call has been started
\* since, both model slots are empty, even if a load was in flight when
\* dispose() ran; and no model dispose() has disposed is afterwards passed to
\* a classify call.
C27_DisposedStaysDisposed ==
    [][ /\ (disposal'.ran /\ call' = disposal'.callAt) =>
              \A s \in Slots : models'[s] = 0
        /\ \A p \in Callers, s \in Slots :
              (th[p][s].pc = "loaded" /\ th'[p][s].pc = "classifying") =>
                  <<s, th[p][s].model>> \notin disposal.disposed
      ]_vars

\* C28 (as claimed): provided every underlying model load settles, each slot's
\* loading flag is reset to false some time after a load starts, and every
\* caller in the polling loop eventually leaves it.
C28_LoadsSettleAndPollersReturn ==
    /\ \A s \in Slots : loading[s] ~> ~loading[s]
    /\ \A p \in Callers, s \in Slots :
          (th[p][s].pc = "polling") ~> (th[p][s].pc # "polling")

\* the lesion mask is its own mirror image about the vertical midline of its
\* bounding box: column x goes to column minX + maxX - x
MirrorSymmetric(im) ==
    LET mask == LesionMask(im)
        bb   == BBox(im, mask)
    IN  \A idx \in mask :
            (idx \div im.w) * im.w + (bb.minX + bb.maxX - (idx % im.w)) \in mask

\* C29 (as claimed): for every non-empty lesion mask that is mirror-symmetric
\* about the vertical midline of its bounding box, analyzeLesionDetails (when
\* it reads the pixels) returns asymmetryScore 0.
C29_SymmetricMaskHasNoAsymmetry ==
    ( /\ lesion # None
      /\ lesion.shape # "Unknown"
      /\ LesionMask(img) # {}
      /\ MirrorSymmetric(img) ) => lesion.asymmetryScore = 0

\* the category the first recommendation names
RecommendedCategory(recommendations) ==
    IF Includes(recommendations[1], "High risk") THEN "High"
    ELSE IF Includes(recommendations[1], "Moderate risk") THEN "Moderate"
    ELSE IF Includes(recommendations[1], "Low risk") THEN "Low"
    ELSE "none"

\* C30 (as claimed): for every cancerPercentage in 5 .. 95 the risk level
\* getRiskLevel displays names the same category as the recommendation
\* generateRecommendations gives for that percentage.
C30_RiskLevelMatchesRecommendation ==
    component.analysis # None =>
        component.analysis.riskLevel
            = RecommendedCategory(component.analysis.recommendations)

====
